---- MODULE Spec2Model ----
(***************************************************************************)
(* TailwindSQL: the class-name parser (parseClassNames / parseClassName)   *)
(* and the query builder (buildQuery), as they are called in sequence by   *)
(* the DB component and the query endpoint.  Strings are TLA+ strings and  *)
(* are taken apart character by character with Len, SubSeq and \o.         *)
(***************************************************************************)
EXTENDS Integers, Sequences, FiniteSets, TLC

VARIABLES
    classNames,         \* the className prop given to DB / parseClassNames
    children,           \* DB: the child elements, each with its name and props
    joins,              \* DB: the JoinConfig list built from the Join children
    pc,                 \* where control is
    classes,            \* parseClassNames: classNames.split(/\s+/)
    ci,                 \* parseClassNames: position in classes, from 1
    className,          \* parseClassName: its argument
    parts,              \* parseClassName: className.slice(3).split('-')
    i,                  \* parseClassName: index into parts, from 0 as in the code
    state,              \* parseClassName: the parser state
    currentWhereField,  \* parseClassName: the pending where field
    config,             \* the descriptor: <<>> for null, <<c>> for the object c
    raised,             \* parseClassName raised an exception
    built,              \* outcome of buildQuery
    caller,             \* "DB": the DB component, "GET": the query endpoint
    joinParam,          \* GET: the 'join' values of the query string; get('join')
                        \* is the first of them, null when it is <<>>
    response,           \* what the caller returns
    executed,           \* a statement was prepared and run on the database
    playgroundClassName,\* Playground: the state className
    playgroundJoin,     \* Playground: the state join
    result,             \* Playground: the state result, <<>> for null
    loading,            \* Playground: the state loading
    timer,              \* Playground: the pending debounce timer with the
                        \* className and join of its closure, <<>> when none
    requests            \* Playground: the fetches issued, in the order issued,
                        \* each with its url and whether it is still pending

vars == <<classNames, children, joins, pc, classes, ci, className, parts, i, state,
          currentWhereField, config, raised, built, caller, joinParam,
          response, executed, playgroundClassName, playgroundJoin, result,
          loading,
          timer, requests>>

\* the state of the Playground component, which no server code assigns
playground ==
    <<playgroundClassName, playgroundJoin, result, loading, timer, requests>>

\* the state of the parser, the builder and their callers, which the
\* Playground does not assign
server == <<classNames, children, joins, pc, classes, ci, className, parts, i,
            state, currentWhereField, config, raised, built, caller, joinParam,
            response, executed>>

(***************************************************************************)
(* Bounds of the model.                                                    *)
(***************************************************************************)
\* tokens after the table in the class names built from Vocab
MaxParts == 3
\* tokens after "db-t-" in the class names of TailClassNames
MaxTail == 4
\* tokens after "db-users-where-" in the class names built from ChainVocab
MaxChain == 5
\* joins handed to the builder with a parsed descriptor
MaxJoins == 2

(***************************************************************************)
(* Characters and strings.                                                 *)
(***************************************************************************)
Lower == {"a","b","c","d","e","f","g","h","i","j","k","l","m",
          "n","o","p","q","r","s","t","u","v","w","x","y","z"}

Upper == {"A","B","C","D","E","F","G","H","I","J","K","L","M",
          "N","O","P","Q","R","S","T","U","V","W","X","Y","Z"}

Digits == {"0","1","2","3","4","5","6","7","8","9"}

\* the characters matched by \s that the inputs use
Whitespace == {" ", "\t", "\n"}

Ch(s, k) == SubSeq(s, k, k)

\* mutant of StartsWith: className.includes(p) instead of startsWith(p)
StartsWithIncludes(s, p) ==
    \E k \in 1..(Len(s) - Len(p) + 1) : SubSeq(s, k, k + Len(p) - 1) = p

\* String.prototype.startsWith
StartsWith(s, p) == Len(s) >= Len(p) /\ SubSeq(s, 1, Len(p)) = p

\* String.prototype.slice(n), n >= 0
Slice(s, n) == SubSeq(s, n + 1, Len(s))

\* position of the first character of s, from k on, that is in set (0: none)
FirstIn(s, set, k) ==
    IF \A m \in k..Len(s) : Ch(s, m) \notin set THEN 0
    ELSE CHOOSE j \in k..Len(s) :
            Ch(s, j) \in set /\ \A m \in k..(j - 1) : Ch(s, m) \notin set

\* position of the first character of s, from k on, not in set (Len(s)+1: none)
FirstNotIn(s, set, k) ==
    IF \A m \in k..Len(s) : Ch(s, m) \in set THEN Len(s) + 1
    ELSE CHOOSE j \in k..Len(s) :
            Ch(s, j) \notin set /\ \A m \in k..(j - 1) : Ch(s, m) \in set

\* String.prototype.split(sep) for a one-character separator
RECURSIVE Split(_, _)
Split(s, sep) ==
    LET k == FirstIn(s, {sep}, 1)
    IN  IF k = 0 THEN <<s>>
        ELSE <<SubSeq(s, 1, k - 1)>> \o Split(Slice(s, k), sep)

\* a split at every single space character
SplitOnSpaces(s) == Split(s, " ")

\* String.prototype.split(/\s+/): a run of whitespace is one separator
RECURSIVE SplitWhitespace(_)
SplitWhitespace(s) ==
    LET k == FirstIn(s, Whitespace, 1)
    IN  IF k = 0 THEN <<s>>
        ELSE <<SubSeq(s, 1, k - 1)>>
             \o SplitWhitespace(Slice(s, FirstNotIn(s, Whitespace, k) - 1))

\* position of the last character of s not in set (0: none)
LastNotIn(s, set, k) ==
    IF \A m \in 1..k : Ch(s, m) \in set THEN 0
    ELSE CHOOSE j \in 1..k :
            Ch(s, j) \notin set /\ \A m \in (j + 1)..k : Ch(s, m) \in set

\* String.prototype.trim
Trim(s) == SubSeq(s, FirstNotIn(s, Whitespace, 1), LastNotIn(s, Whitespace, Len(s)))

\* Array.prototype.join
RECURSIVE JoinStr(_, _)
JoinStr(strs, sep) ==
    IF Len(strs) = 0 THEN ""
    ELSE IF Len(strs) = 1 THEN strs[1]
    ELSE strs[1] \o sep \o JoinStr(Tail(strs), sep)

UpperOf == [c \in Lower |->
    CASE c = "a" -> "A" [] c = "b" -> "B" [] c = "c" -> "C" [] c = "d" -> "D"
      [] c = "e" -> "E" [] c = "f" -> "F" [] c = "g" -> "G" [] c = "h" -> "H"
      [] c = "i" -> "I" [] c = "j" -> "J" [] c = "k" -> "K" [] c = "l" -> "L"
      [] c = "m" -> "M" [] c = "n" -> "N" [] c = "o" -> "O" [] c = "p" -> "P"
      [] c = "q" -> "Q" [] c = "r" -> "R" [] c = "s" -> "S" [] c = "t" -> "T"
      [] c = "u" -> "U" [] c = "v" -> "V" [] c = "w" -> "W" [] c = "x" -> "X"
      [] c = "y" -> "Y" [] c = "z" -> "Z"]

\* String.prototype.toUpperCase
RECURSIVE ToUpperCase(_)
ToUpperCase(s) ==
    IF Len(s) = 0 THEN ""
    ELSE (IF Ch(s, 1) \in Lower THEN UpperOf[Ch(s, 1)] ELSE Ch(s, 1))
         \o ToUpperCase(Slice(s, 1))

DigitValue == [c \in Digits |->
    CASE c = "0" -> 0 [] c = "1" -> 1 [] c = "2" -> 2 [] c = "3" -> 3
      [] c = "4" -> 4 [] c = "5" -> 5 [] c = "6" -> 6 [] c = "7" -> 7
      [] c = "8" -> 8 [] c = "9" -> 9]

RECURSIVE DigitsValue(_, _)
DigitsValue(s, acc) ==
    IF Len(s) = 0 THEN acc
    ELSE DigitsValue(Slice(s, 1), 10 * acc + DigitValue[Ch(s, 1)])

\* the Number value +Infinity, which parseInt returns for an integer beyond
\* the range of a double; no digit run of the inputs has this value as a number
Infinity == 999999999

\* the Number a run of digits stands for: an integer of 310 significant
\* digits or more, or of 309 that does not start with 1, is above the largest
\* double (1.797...e308) and gives Infinity
DigitRunValue(run) ==
    LET z   == FirstNotIn(run, {"0"}, 1)
        sig == Len(run) - z + 1
    IN  IF sig > 309 \/ (sig = 309 /\ Ch(run, z) # "1") THEN Infinity
        ELSE DigitsValue(run, 0)

\* Number.isInteger
IsInteger(n) == n # Infinity /\ n # 0 - Infinity

\* a parseInt that wants the whole string to be digits
ParseIntStrict(s) ==
    IF Len(s) > 0 /\ FirstNotIn(s, Digits, 1) > Len(s)
    THEN <<DigitRunValue(s)>> ELSE <<>>

\* parseInt(s, 10): leading whitespace is skipped, then an optional sign,
\* then the longest run of digits; <<>> stands for NaN, <<n>> for the number n
ParseInt(s) ==
    LET a    == FirstNotIn(s, Whitespace, 1)
        sign == IF a <= Len(s) /\ Ch(s, a) \in {"+", "-"} THEN Ch(s, a) ELSE ""
        b    == IF sign = "" THEN a ELSE a + 1
        e    == FirstNotIn(s, Digits, b)
        n    == DigitRunValue(SubSeq(s, b, e - 1))
    IN  IF e = b THEN <<>>
        ELSE IF sign = "-" THEN <<0 - n>> ELSE <<n>>

(***************************************************************************)
(* The descriptor.  An optional field is <<>> when undefined and <<v>>     *)
(* when set; where is the list of the object's own properties in the order *)
(* Object.entries enumerates them.                                         *)
(***************************************************************************)
NewConfig(table) ==
    [table |-> table, columns |-> <<>>, where |-> <<>>, limit |-> <<>>,
     orderBy |-> <<>>, joins |-> <<>>]

\* a property key that is an array index: enumerated first, in numeric order
IsArrayIndex(k) ==
    /\ Len(k) > 0
    /\ FirstNotIn(k, Digits, 1) = Len(k) + 1
    /\ (Len(k) > 1 => Ch(k, 1) # "0")
    /\ Len(k) <= 9

HasOwn(where, k) == \E n \in 1..Len(where) : where[n].field = k

\* number of leading entries of where enumerated before a new key k
RECURSIVE EntriesBefore(_, _, _)
EntriesBefore(where, k, n) ==
    IF n > Len(where) THEN Len(where)
    ELSE IF ~IsArrayIndex(where[n].field) THEN
        (IF IsArrayIndex(k) THEN n - 1 ELSE Len(where))
    ELSE IF IsArrayIndex(k)
            /\ DigitsValue(k, 0) < DigitsValue(where[n].field, 0) THEN n - 1
    ELSE EntriesBefore(where, k, n + 1)

\* config.where[k] = v on an object created by the literal {}
SetWhere(where, k, v) ==
    IF k = "__proto__" THEN where
    ELSE IF HasOwn(where, k) THEN
        [n \in 1..Len(where) |->
            IF where[n].field = k THEN [field |-> k, value |-> v] ELSE where[n]]
    ELSE LET b == EntriesBefore(where, k, 1)
         IN  SubSeq(where, 1, b) \o <<[field |-> k, value |-> v]>>
             \o SubSeq(where, b + 1, Len(where))

Keywords == {"where", "limit", "orderby"}

\* mutant of KeywordState: 'orderby' goes to orderby_dir
KeywordStateOrderbyDir(part) ==
    CASE part = "where"   -> "where_field"
      [] part = "limit"   -> "limit"
      [] part = "orderby" -> "orderby_dir"

\* the state a reserved keyword moves the parser to
KeywordState(part) ==
    CASE part = "where"   -> "where_field"
      [] part = "limit"   -> "limit"
      [] part = "orderby" -> "orderby_field"

NoResult == [threw |-> FALSE, error |-> "", sql |-> <<>>, params |-> <<>>]

\* what the parser and the builder never assign: the caller's own state
CallerFrame == <<children, playground, caller, joinParam, response, executed>>

(***************************************************************************)
(* parseClassNames and parseClassName.                                     *)
(***************************************************************************)
\* parseClassNames: split the input on whitespace
ParseClassNames ==
    /\ pc = "parseClassNames"
    /\ ~(caller = "GET" /\ classNames = "")
    /\ classes' = SplitWhitespace(classNames)
    /\ ci' = 1
    /\ pc' = "forClass"
    /\ UNCHANGED <<classNames, joins, className, parts, i, state,
                   currentWhereField, config, raised, built>>
    /\ UNCHANGED CallerFrame

\* parseClassName up to its loop: the prefix test, the split, the table
ParseClassName ==
    /\ pc = "forClass"
    /\ ci <= Len(classes)
    /\ LET cn == Trim(classes[ci])
           ps == Split(Slice(cn, 3), "-")
       IN  /\ className' = cn
           /\ IF ~StartsWith(cn, "db-") \/ Len(ps) = 0 \/ ps[1] = ""
              THEN /\ ci' = ci + 1
                   /\ UNCHANGED <<pc, parts, i, state, currentWhereField, config>>
              ELSE /\ parts' = ps
                   /\ config' = <<NewConfig(ps[1])>>
                   /\ state' = "column"
                   /\ currentWhereField' = ""
                   /\ i' = 1
                   /\ pc' = "while"
                   /\ UNCHANGED ci
    /\ UNCHANGED <<classNames, joins, classes, raised, built>>
    /\ UNCHANGED CallerFrame

\* parseClassNames: no class name gave a descriptor
ReturnNull ==
    /\ pc = "forClass"
    /\ ci > Len(classes)
    /\ config' = <<>>
    /\ pc' = "caller"
    /\ UNCHANGED <<classNames, joins, classes, ci, className, parts, i, state,
                   currentWhereField, raised, built>>
    /\ UNCHANGED CallerFrame

InLoop == pc = "while" /\ i < Len(parts)

Part == parts[i + 1]

LoopFrame == <<classNames, joins, classes, ci, className, parts, raised, built,
               children, playground, caller, joinParam, response, executed>>

\* a reserved keyword: change state, continue
\* a keyword step that stores a pending where field with the keyword as value
KeywordKeepsPending ==
    /\ InLoop
    /\ Part \in Keywords
    /\ config' = IF state = "where_value"
                 THEN <<[config[1] EXCEPT
                           !.where = SetWhere(@, currentWhereField, Part)]>>
                 ELSE config
    /\ state' = KeywordState(Part)
    /\ i' = i + 1
    /\ UNCHANGED <<pc, currentWhereField>>
    /\ UNCHANGED LoopFrame

Keyword ==
    /\ InLoop
    /\ Part \in Keywords
    /\ state' = KeywordState(Part)
    /\ i' = i + 1
    /\ UNCHANGED <<pc, currentWhereField, config>>
    /\ UNCHANGED LoopFrame

Column ==
    /\ InLoop
    /\ Part \notin Keywords
    /\ state = "column"
    /\ config' = IF Part \notin {"where", "limit", "orderby"}
                 THEN <<[config[1] EXCEPT !.columns = Append(@, Part)]>>
                 ELSE config
    /\ i' = i + 1
    /\ UNCHANGED <<pc, state, currentWhereField>>
    /\ UNCHANGED LoopFrame

WhereField ==
    /\ InLoop
    /\ Part \notin Keywords
    /\ state = "where_field"
    /\ currentWhereField' = Part
    /\ state' = "where_value"
    /\ i' = i + 1
    /\ UNCHANGED <<pc, config>>
    /\ UNCHANGED LoopFrame

WhereValue ==
    /\ InLoop
    /\ Part \notin Keywords
    /\ state = "where_value"
    /\ config' = <<[config[1] EXCEPT !.where = SetWhere(@, currentWhereField, Part)]>>
    /\ state' = "where_field"
    /\ i' = i + 1
    /\ UNCHANGED <<pc, currentWhereField>>
    /\ UNCHANGED LoopFrame

Limit ==
    /\ InLoop
    /\ Part \notin Keywords
    /\ state = "limit"
    /\ LET limit == ParseInt(Part)
       IN  config' = IF limit # <<>>
                     THEN <<[config[1] EXCEPT !.limit = limit]>>
                     ELSE config
    /\ state' = "column"
    /\ i' = i + 1
    /\ UNCHANGED <<pc, currentWhereField>>
    /\ UNCHANGED LoopFrame

\* an orderby_field case that keeps the direction of an earlier orderBy
OrderbyFieldKeepsDirection ==
    /\ InLoop
    /\ Part \notin Keywords
    /\ state = "orderby_field"
    /\ config' = <<[config[1] EXCEPT
                     !.orderBy = <<[field |-> Part,
                                    direction |-> IF @ = <<>> THEN "asc"
                                                  ELSE @[1].direction]>>]>>
    /\ state' = "orderby_dir"
    /\ i' = i + 1
    /\ UNCHANGED <<pc, currentWhereField>>
    /\ UNCHANGED LoopFrame

OrderbyField ==
    /\ InLoop
    /\ Part \notin Keywords
    /\ state = "orderby_field"
    /\ config' = <<[config[1] EXCEPT
                     !.orderBy = <<[field |-> Part, direction |-> "asc"]>>]>>
    /\ state' = "orderby_dir"
    /\ i' = i + 1
    /\ UNCHANGED <<pc, currentWhereField>>
    /\ UNCHANGED LoopFrame

\* an orderby_dir case that takes any token for the direction
OrderbyDirAnyToken ==
    /\ InLoop
    /\ Part \notin Keywords
    /\ state = "orderby_dir"
    /\ config[1].orderBy # <<>>
    /\ config' = <<[config[1] EXCEPT
                     !.orderBy = <<[@[1] EXCEPT !.direction = Part]>>]>>
    /\ state' = "column"
    /\ i' = i + 1
    /\ UNCHANGED <<pc, raised>>
    /\ UNCHANGED <<classNames, joins, classes, ci, className, parts,
                   currentWhereField, built>>
    /\ UNCHANGED CallerFrame

\* config.orderBy!.direction = part raises a TypeError when orderBy is undefined
OrderbyDir ==
    /\ InLoop
    /\ Part \notin Keywords
    /\ state = "orderby_dir"
    /\ IF Part = "asc" \/ Part = "desc"
       THEN IF config[1].orderBy = <<>>
            THEN /\ raised' = TRUE
                 /\ pc' = "done"
                 /\ UNCHANGED <<config, state, i>>
            ELSE /\ config' = <<[config[1] EXCEPT
                                  !.orderBy = <<[@[1] EXCEPT !.direction = Part]>>]>>
                 /\ state' = "column"
                 /\ i' = i + 1
                 /\ UNCHANGED <<pc, raised>>
       ELSE /\ state' = "column"
            /\ i' = i + 1
            /\ UNCHANGED <<pc, config, raised>>
    /\ UNCHANGED <<classNames, joins, classes, ci, className, parts,
                   currentWhereField, built>>
    /\ UNCHANGED CallerFrame

\* the loop is over: parseClassName returns config, and so does parseClassNames
ReturnConfig ==
    /\ pc = "while"
    /\ i >= Len(parts)
    /\ pc' = "caller"
    /\ UNCHANGED <<classNames, joins, classes, ci, className, parts, i, state,
                   currentWhereField, config, raised, built>>
    /\ UNCHANGED CallerFrame

(***************************************************************************)
(* buildQuery.                                                             *)
(***************************************************************************)
\* mutant of SafeIdentifier: the regex /^[a-zA-Z][a-zA-Z0-9]*$/, no underscore
SafeIdentifierNoUnderscore(name) ==
    /\ Len(name) > 0
    /\ SubSeq(name, 1, 1) \in Lower \cup Upper
    /\ \A k \in 2..Len(name) : SubSeq(name, k, k) \in Lower \cup Upper \cup Digits

\* an identifier test that lets a digit stand first
SafeIdentifierDigitFirst(name) ==
    /\ Len(name) > 0
    /\ \A k \in 1..Len(name) :
          SubSeq(name, k, k) \in Lower \cup Upper \cup Digits \cup {"_"}

\* SAFE_IDENTIFIER_REGEX.test(name): /^[a-zA-Z_][a-zA-Z0-9_]*$/
SafeIdentifier(name) ==
    /\ Len(name) > 0
    /\ Ch(name, 1) \in Lower \cup Upper \cup {"_"}
    /\ FirstNotIn(name, Lower \cup Upper \cup Digits \cup {"_"}, 2) = Len(name) + 1

StrParam(s) == [type |-> "string", str |-> s, num |-> 0]

NumParam(n) == [type |-> "number", str |-> "", num |-> n]

\* config.joins as a list: undefined and [] are both iterated zero times
JoinsOf(cfg) == IF cfg.joins = <<>> THEN <<>> ELSE cfg.joins[1]

\* hasJoins = config.joins && config.joins.length > 0
HasJoins(cfg) == cfg.joins # <<>> /\ Len(cfg.joins[1]) > 0

\* mutant of JoinAlias: every join gets the alias j0
JoinAliasShared(n) == "j" \o ToString(0)

\* joinAliases[n - 1] = `j${n - 1}` for the n-th join
JoinAlias(n) == "j" \o ToString(n - 1)

RECURSIVE Flatten(_)
Flatten(lists) ==
    IF Len(lists) = 0 THEN <<>> ELSE Head(lists) \o Flatten(Tail(lists))

\* mutant of SanitizeCalls: the table of a join is interpolated unsanitized
SanitizeCallsNoJoinTable(cfg) ==
    LET js == IF cfg.joins = <<>> THEN <<>> ELSE cfg.joins[1]
    IN  <<cfg.table>>
        \o cfg.columns
        \o Flatten([n \in 1..Len(js) |-> js[n].columns])
        \o Flatten([n \in 1..Len(js) |-> <<js[n].parentColumn, js[n].childColumn>>])
        \o [n \in 1..Len(cfg.where) |-> cfg.where[n].field]
        \o (IF cfg.orderBy # <<>> THEN <<cfg.orderBy[1].field>> ELSE <<>>)

\* the arguments of the calls of sanitizeIdentifier, in the order buildQuery
\* makes them when none of them throws
SanitizeCalls(cfg) ==
    LET js == JoinsOf(cfg)
    IN  <<cfg.table>>
        \o cfg.columns
        \o Flatten([n \in 1..Len(js) |-> js[n].columns])
        \o Flatten([n \in 1..Len(js) |->
                      <<js[n].table, js[n].parentColumn, js[n].childColumn>>])
        \o [n \in 1..Len(cfg.where) |-> cfg.where[n].field]
        \o (IF cfg.orderBy # <<>> THEN <<cfg.orderBy[1].field>> ELSE <<>>)

\* a projection that never prefixes the base columns
SelectColumnsNoPrefix(cfg) ==
    LET js == JoinsOf(cfg)
        base ==
            IF Len(cfg.columns) > 0 THEN cfg.columns
            ELSE IF HasJoins(cfg) THEN <<cfg.table \o ".*">> ELSE <<"*">>
        ofJoin(n) ==
            IF Len(js[n].columns) > 0
            THEN [m \in 1..Len(js[n].columns) |->
                    JoinAlias(n) \o "." \o js[n].columns[m]
                    \o " AS " \o js[n].table \o "_" \o js[n].columns[m]]
            ELSE <<JoinAlias(n) \o ".*">>
    IN  base \o Flatten([n \in 1..Len(js) |-> ofJoin(n)])

\* the base projection, then the projection of each join
SelectColumns(cfg) ==
    LET js == JoinsOf(cfg)
        base ==
            IF Len(cfg.columns) > 0
            THEN IF HasJoins(cfg)
                 THEN [n \in 1..Len(cfg.columns) |-> cfg.table \o "." \o cfg.columns[n]]
                 ELSE cfg.columns
            ELSE IF HasJoins(cfg) THEN <<cfg.table \o ".*">> ELSE <<"*">>
        ofJoin(n) ==
            IF Len(js[n].columns) > 0
            THEN [m \in 1..Len(js[n].columns) |->
                    JoinAlias(n) \o "." \o js[n].columns[m]
                    \o " AS " \o js[n].table \o "_" \o js[n].columns[m]]
            ELSE <<JoinAlias(n) \o ".*">>
    IN  base \o Flatten([n \in 1..Len(js) |-> ofJoin(n)])

\* the JOIN clause of the n-th join
JoinClause(cfg, n) ==
    LET join == JoinsOf(cfg)[n]
    IN  " " \o join.type \o " JOIN " \o join.table \o " AS " \o JoinAlias(n)
        \o " ON " \o cfg.table \o "." \o join.parentColumn
        \o " = " \o JoinAlias(n) \o "." \o join.childColumn

\* fieldRef: prefixed with the main table when there are joins
FieldRef(cfg, field) ==
    IF HasJoins(cfg) THEN cfg.table \o "." \o field ELSE field

WhereClause(cfg) ==
    IF Len(cfg.where) > 0
    THEN " WHERE " \o JoinStr([n \in 1..Len(cfg.where) |->
                                 FieldRef(cfg, cfg.where[n].field) \o " = ?"], " AND ")
    ELSE ""

OrderByClause(cfg) ==
    IF cfg.orderBy # <<>>
    THEN " ORDER BY " \o FieldRef(cfg, cfg.orderBy[1].field)
         \o " " \o ToUpperCase(cfg.orderBy[1].direction)
    ELSE ""

\* mutant of LimitClause: the limit is written into the text
LimitClauseInlined(cfg) ==
    IF cfg.limit # <<>> THEN " LIMIT " \o ToString(cfg.limit[1]) ELSE ""

\* a LIMIT clause written only for a truthy limit
LimitClauseTruthy(cfg) ==
    IF cfg.limit # <<>> /\ cfg.limit[1] # 0 THEN " LIMIT ?" ELSE ""

LimitClause(cfg) == IF cfg.limit # <<>> THEN " LIMIT ?" ELSE ""

QueryText(cfg) ==
    "SELECT " \o JoinStr(SelectColumns(cfg), ", ") \o " FROM " \o cfg.table
    \o JoinStr([n \in 1..Len(JoinsOf(cfg)) |-> JoinClause(cfg, n)], "")
    \o WhereClause(cfg) \o OrderByClause(cfg) \o LimitClause(cfg)

\* mutant of QueryParams: the limit is not pushed
QueryParamsNoLimit(cfg) ==
    [n \in 1..Len(cfg.where) |-> StrParam(cfg.where[n].value)]

\* mutant of QueryParams: the limit is pushed before the where values
QueryParamsLimitFirst(cfg) ==
    (IF cfg.limit # <<>> THEN <<NumParam(cfg.limit[1])>> ELSE <<>>)
    \o [n \in 1..Len(cfg.where) |-> StrParam(cfg.where[n].value)]

QueryParams(cfg) ==
    [n \in 1..Len(cfg.where) |-> StrParam(cfg.where[n].value)]
    \o (IF cfg.limit # <<>> THEN <<NumParam(cfg.limit[1])>> ELSE <<>>)

\* buildQuery(config): the first identifier that fails the test is thrown
\* as `Invalid identifier: ${name}`; otherwise {sql, params} is returned
BuildQuery(cfg) ==
    LET calls == SanitizeCalls(cfg)
        bad   == {n \in 1..Len(calls) : ~SafeIdentifier(calls[n])}
    IN  IF bad # {}
        THEN [threw |-> TRUE,
              error |-> "Invalid identifier: "
                        \o calls[CHOOSE n \in bad : \A m \in bad : n <= m],
              sql |-> <<>>, params |-> <<>>]
        ELSE [threw |-> FALSE, error |-> "",
              sql |-> <<QueryText(cfg)>>, params |-> <<QueryParams(cfg)>>]

(***************************************************************************)
(* The callers of the parser and the builder: the DB component and the     *)
(* query endpoint.                                                         *)
(***************************************************************************)
\* the result of a caller: kind is "none" (not returned yet), "missing",
\* "invalid", "error" or "ok"; status is the HTTP status of the endpoint and 0
\* for the DB component, which returns markup
Result(kind, status) ==
    [kind |-> kind, status |-> IF caller = "GET" THEN status ELSE 0]

\* GET: if (!className) return 400 'Missing className parameter'
MissingClassName ==
    /\ pc = "parseClassNames"
    /\ caller = "GET"
    /\ classNames = ""
    /\ response' = Result("missing", 400)
    /\ pc' = "done"
    /\ UNCHANGED <<classNames, joins, classes, ci, className, parts, i, state,
                   currentWhereField, config, raised, built, children, playground, caller,
                   joinParam, executed>>

\* a caller without the return in its if (!config) block
NotAQueryClassNoReturn ==
    /\ pc = "caller"
    /\ config = <<>>
    /\ pc' = "execute"
    /\ UNCHANGED <<classNames, joins, classes, ci, className, parts, i, state,
                   currentWhereField, config, raised, built>>
    /\ UNCHANGED CallerFrame

\* if (!config) return the error result; buildQuery is not called
NotAQueryClass ==
    /\ pc = "caller"
    /\ config = <<>>
    /\ response' = Result("invalid", 400)
    /\ pc' = "done"
    /\ UNCHANGED <<classNames, joins, classes, ci, className, parts, i, state,
                   currentWhereField, config, raised, built, children, playground, caller,
                   joinParam, executed>>

\* the own keys of typeMap, the same object literal in parseJoinProps,
\* parseJoinChild and the endpoint
TypeMap(k) ==
    CASE k = "inner" -> "INNER"
      [] k = "left"  -> "LEFT"
      [] k = "right" -> "RIGHT"

\* names that a plain object inherits from Object.prototype
PrototypeKeys ==
    {"constructor", "toString", "toLocaleString", "valueOf", "hasOwnProperty",
     "isPrototypeOf", "propertyIsEnumerable", "__proto__"}

\* typeMap[joinType || 'left'] || 'LEFT', as the template literal of the JOIN
\* clause prints it: an inherited property is an object or a function
JoinTypeOf(joinType) ==
    LET k == IF joinType = <<>> \/ joinType = <<"">> THEN "left" ELSE joinType[1]
    IN  IF k \in {"inner", "left", "right"} THEN TypeMap(k)
        ELSE IF k = "__proto__" THEN "[object Object]"
        ELSE IF k = "constructor" THEN "function Object() { [native code] }"
        ELSE IF k \in PrototypeKeys THEN "function " \o k \o "() { [native code] }"
        ELSE "LEFT"

\* typeMap[props.type || 'left'], as the template literal of the JOIN clause
\* prints it: there is no fallback, a name that typeMap lacks gives undefined
JoinTypeOfProps(type) ==
    LET k == IF type = <<>> \/ type = <<"">> THEN "left" ELSE type[1]
    IN  IF k \in {"inner", "left", "right"} THEN TypeMap(k)
        ELSE IF k = "__proto__" THEN "[object Object]"
        ELSE IF k = "constructor" THEN "function Object() { [native code] }"
        ELSE IF k \in PrototypeKeys THEN "function " \o k \o "() { [native code] }"
        ELSE "undefined"

\* parseJoinProps of the Join component; props.select and props.type are
\* <<>> when the prop is absent
ParseJoinProps(props) ==
    LET on           == Split(props.on, "-")
        parentColumn == on[1]
        childColumn  == IF Len(on) >= 2 THEN on[2] ELSE ""
        cols         == IF props.select = <<>> THEN <<>>
                        ELSE Split(props.select[1], ",")
    IN  [table |-> props.table,
         parentColumn |-> IF parentColumn = "" THEN "id" ELSE parentColumn,
         childColumn |-> IF childColumn = "" THEN props.table \o "_id"
                         ELSE childColumn,
         columns |-> IF props.select = <<>> \/ props.select = <<"">> THEN <<>>
                     ELSE [n \in 1..Len(cols) |-> Trim(cols[n])],
         type |-> JoinTypeOfProps(props.type)]

\* parseJoinChild of the DB component: the same body as parseJoinProps
ParseJoinChild(props) ==
    LET on           == Split(props.on, "-")
        parentColumn == on[1]
        childColumn  == IF Len(on) >= 2 THEN on[2] ELSE ""
        columns      == IF props.select = <<>> \/ props.select = <<"">> THEN <<>>
                        ELSE LET cols == Split(props.select[1], ",")
                             IN  [n \in 1..Len(cols) |-> Trim(cols[n])]
    IN  [table |-> props.table,
         parentColumn |-> IF parentColumn = "" THEN "id" ELSE parentColumn,
         childColumn |-> IF childColumn = "" THEN props.table \o "_id"
                         ELSE childColumn,
         columns |-> columns,
         type |-> JoinTypeOfProps(props.type)]

\* DB: Children.forEach pushes parseJoinChild(props) for every child whose
\* element type is named Join; if (joins.length > 0) config.joins = joins
AttachJoins ==
    /\ pc = "caller"
    /\ caller = "DB"
    /\ config # <<>>
    /\ LET joinElements == SelectSeq(children, LAMBDA child : child.name = "Join")
       IN  joins' = [n \in 1..Len(joinElements) |->
                         ParseJoinChild(joinElements[n].props)]
    /\ config' = IF Len(joins') > 0
                 THEN <<[config[1] EXCEPT !.joins = <<joins'>>]>>
                 ELSE config
    /\ pc' = "buildQuery"
    /\ UNCHANGED <<classNames, classes, ci, className, parts, i, state,
                   currentWhereField, raised, built>>
    /\ UNCHANGED CallerFrame

\* GET: the join descriptor built from joinParts, which has two parts or more
JoinOfParts(joinParts) ==
    LET table      == joinParts[1]
        onClause   == joinParts[2]
        selectCols == IF Len(joinParts) >= 3 THEN joinParts[3] ELSE ""
        joinType   == IF Len(joinParts) >= 4 THEN <<joinParts[4]>> ELSE <<>>
        on         == Split(IF onClause = "" THEN "id-id" ELSE onClause, "-")
        parentCol  == on[1]
        childCol   == IF Len(on) >= 2 THEN on[2] ELSE ""
        cols       == Split(selectCols, ",")
    IN  [table |-> table,
         parentColumn |-> IF parentCol = "" THEN "id" ELSE parentCol,
         childColumn |-> IF childCol = "" THEN table \o "_id" ELSE childCol,
         columns |-> IF selectCols = "" THEN <<>>
                     ELSE [n \in 1..Len(cols) |-> Trim(cols[n])],
         type |-> JoinTypeOf(joinType)]

\* GET: if (joinParam) { ... config.joins = [ ... ] }
ParseJoinParam ==
    /\ pc = "caller"
    /\ caller = "GET"
    /\ config # <<>>
    /\ config' =
          IF joinParam # <<>> /\ joinParam[1] # ""
             /\ Len(Split(joinParam[1], ":")) >= 2
          THEN <<[config[1] EXCEPT
                    !.joins = <<<<JoinOfParts(Split(joinParam[1], ":"))>>>>]>>
          ELSE config
    /\ pc' = "buildQuery"
    /\ UNCHANGED <<classNames, joins, classes, ci, className, parts, i, state,
                   currentWhereField, raised, built>>
    /\ UNCHANGED CallerFrame

\* const { sql, params } = buildQuery(config); an exception goes to the catch
\* block, which returns the error result
CallBuildQuery ==
    /\ pc = "buildQuery"
    /\ built' = BuildQuery(config[1])
    /\ IF built'.threw
       THEN /\ response' = Result("error", 500)
            /\ pc' = "done"
       ELSE /\ pc' = "execute"
            /\ UNCHANGED response
    /\ UNCHANGED <<classNames, joins, classes, ci, className, parts, i, state,
                   currentWhereField, config, raised, children, playground, caller, joinParam,
                   executed>>

\* db.prepare(sql) and stmt.all(...params): the database returns rows or
\* throws, and the exception goes to the same catch block
Execute ==
    /\ pc = "execute"
    /\ executed' = TRUE
    /\ \E ok \in BOOLEAN :
          response' = IF ok THEN Result("ok", 200) ELSE Result("error", 500)
    /\ pc' = "done"
    /\ UNCHANGED <<classNames, joins, classes, ci, className, parts, i, state,
                   currentWhereField, config, raised, built, children, playground, caller,
                   joinParam>>

(***************************************************************************)
(* Inputs.                                                                 *)
(***************************************************************************)
\* fetches the Playground issues
MaxFetches == 2

\* what is typed into the className input of the Playground
PlaygroundClassNames == {"db-users-name-limit-5", "db-users", "users", ""}

\* what is typed or chosen in the inputs of the Join block
JoinFieldValues ==
    [table |-> {"posts", ""}, on |-> {"id-author_id"}, select |-> {"title"},
     type |-> {"left", "inner"}]

\* EXAMPLE_QUERIES: 'All users' and 'Users + Posts'
ExampleQueries ==
    {[value |-> "db-users", join |-> <<>>],
     [value |-> "db-users-name-limit-5",
      join |-> <<[table |-> "posts", on |-> "id-author_id", select |-> "title",
                  type |-> "left"]>>]}

(***************************************************************************)
(* The Playground component: the debounced effect, fetchData and the        *)
(* responses of the requests it has in flight.                             *)
(***************************************************************************)
\* the characters encodeURIComponent leaves as they are
Unreserved ==
    Lower \cup Upper \cup Digits \cup {"-", "_", ".", "!", "~", "*", "'", "(", ")"}

\* encodeURIComponent of one character of the inputs
EncodeChar(c) ==
    IF c \in Unreserved THEN c
    ELSE CASE c = ":" -> "%3A" [] c = "," -> "%2C" [] c = " " -> "%20"
           [] c = "?" -> "%3F" [] c = "&" -> "%26" [] c = "=" -> "%3D"
           [] c = "/" -> "%2F" [] c = "+" -> "%2B" [] c = "%" -> "%25"

RECURSIVE EncodeURIComponent(_)
EncodeURIComponent(s) ==
    IF Len(s) = 0 THEN ""
    ELSE EncodeChar(Ch(s, 1)) \o EncodeURIComponent(Slice(s, 1))

\* useState: the initial value of join
InitialJoin ==
    [enabled |-> FALSE, table |-> "posts", on |-> "id-author_id",
     select |-> "title", type |-> "left"]

\* fetchData: the url of the request for query and joinConfig
UrlOf(query, joinConfig) ==
    "/api/query?className=" \o EncodeURIComponent(query)
    \o IF joinConfig.enabled /\ joinConfig.table # ""
       THEN "&join=" \o EncodeURIComponent(
                joinConfig.table \o ":" \o joinConfig.on \o ":"
                \o joinConfig.select \o ":" \o joinConfig.type)
       ELSE ""

\* values of result: an error the component makes itself, or the JSON that
\* response.json() gives for the url of the request
ErrorResult(message) == [error |-> message, data |-> ""]

DataOf(url) == [error |-> "", data |-> url]

\* the effect of [className, join, fetchData]: its cleanup clears the timer
\* of the render before, and it sets a timer that holds the new values
Debounced(cn, j) == <<[className |-> cn, join |-> j]>>

\* the state after the first render and its effects
PlaygroundMounted ==
    /\ playgroundClassName = "db-users-name-limit-5"
    /\ playgroundJoin = InitialJoin
    /\ result = <<>>
    /\ loading = FALSE
    /\ timer = Debounced("db-users-name-limit-5", InitialJoin)
    /\ requests = <<>>

\* onChange of the className input: setClassName(e.target.value)
SetClassName ==
    /\ \E value \in PlaygroundClassNames :
          /\ value # playgroundClassName
          /\ playgroundClassName' = value
          /\ timer' = Debounced(value, playgroundJoin)
    /\ UNCHANGED <<playgroundJoin, result, loading, requests>>
    /\ UNCHANGED server

\* onChange of an input of the Join block, which is rendered when
\* join.enabled: setJoin(prev => ({ ...prev, [field]: value }))
SetJoinField ==
    /\ playgroundJoin.enabled
    /\ \E field \in DOMAIN JoinFieldValues :
          \E value \in JoinFieldValues[field] :
             /\ value # playgroundJoin[field]
             /\ playgroundJoin' = [playgroundJoin EXCEPT ![field] = value]
    /\ timer' = Debounced(playgroundClassName, playgroundJoin')
    /\ UNCHANGED <<playgroundClassName, result, loading, requests>>
    /\ UNCHANGED server

\* onClick of the Join button: setJoin(prev => ({ ...prev, enabled: !prev.enabled }))
ToggleJoin ==
    /\ playgroundJoin' = [playgroundJoin EXCEPT !.enabled = ~@]
    /\ timer' = Debounced(playgroundClassName, playgroundJoin')
    /\ UNCHANGED <<playgroundClassName, result, loading, requests>>
    /\ UNCHANGED server

\* applyExample: setClassName(example.value) and setJoin of the example's
\* join, or of the join before with enabled false
ApplyExample ==
    /\ \E example \in ExampleQueries :
          /\ playgroundClassName' = example.value
          /\ playgroundJoin' = IF example.join # <<>>
                     THEN [enabled |-> TRUE, table |-> example.join[1].table,
                           on |-> example.join[1].on,
                           select |-> example.join[1].select,
                           type |-> example.join[1].type]
                     ELSE [playgroundJoin EXCEPT !.enabled = FALSE]
    /\ timer' = Debounced(playgroundClassName', playgroundJoin')
    /\ UNCHANGED <<result, loading, requests>>
    /\ UNCHANGED server

\* the timer fires after 300 ms: if (className) fetchData(className, join).
\* fetchData sets the error for a query without 'db-' and returns; otherwise
\* setLoading(true) and fetch(url), which it awaits
TimerFires ==
    /\ timer # <<>>
    /\ timer' = <<>>
    /\ LET query      == timer[1].className
           joinConfig == timer[1].join
       IN  IF query = ""
           THEN UNCHANGED <<result, loading, requests>>
           ELSE IF ~StartsWith(query, "db-")
           THEN /\ result' = <<ErrorResult("Query must start with \"db-\"")>>
                /\ UNCHANGED <<loading, requests>>
           ELSE /\ Len(requests) < MaxFetches
                /\ loading' = TRUE
                /\ requests' = Append(requests,
                                  [url |-> UrlOf(query, joinConfig), pending |-> TRUE])
                /\ UNCHANGED result
    /\ UNCHANGED <<playgroundClassName, playgroundJoin>>
    /\ UNCHANGED server

\* a fetch resolves and its response.json() too: setResult(data), and the
\* finally block does setLoading(false)
Respond ==
    /\ \E n \in DOMAIN requests :
          /\ requests[n].pending
          /\ requests' = [requests EXCEPT ![n].pending = FALSE]
          /\ result' = <<DataOf(requests[n].url)>>
    /\ loading' = FALSE
    /\ UNCHANGED <<playgroundClassName, playgroundJoin, timer>>
    /\ UNCHANGED server

\* a fetch or its response.json() rejects: the catch block sets the error,
\* and the finally block does setLoading(false)
FetchFails ==
    /\ \E n \in DOMAIN requests :
          /\ requests[n].pending
          /\ requests' = [requests EXCEPT ![n].pending = FALSE]
    /\ result' = <<ErrorResult("Failed to fetch data")>>
    /\ loading' = FALSE
    /\ UNCHANGED <<playgroundClassName, playgroundJoin, timer>>
    /\ UNCHANGED server

Vocab == {"id", "1", "where", "limit", "orderby", "__proto__", "x?"}

ChainVocab == {"id", "name", "1", "where"}

SeqsUpTo(S, n) == UNION {[1..m -> S] : m \in 0..n}

VocabTables == {"id", "1"}

\* "db-", a table and up to MaxParts tokens of Vocab
VocabClassNames ==
    {"db-" \o JoinStr(<<tb>> \o t, "-") :
        tb \in VocabTables, t \in SeqsUpTo(Vocab, MaxParts)}

\* "db-users-where-" followed by up to MaxChain tokens of ChainVocab
ChainClassNames ==
    {"db-users-where-" \o JoinStr(t, "-") : t \in SeqsUpTo(ChainVocab, MaxChain)}

TailVocab == {"limit", "orderby", "id", "desc", "7x"}

\* "db-t-" followed by up to MaxTail tokens of TailVocab
TailClassNames ==
    {"db-t-" \o JoinStr(t, "-") : t \in SeqsUpTo(TailVocab, MaxTail)}

RECURSIVE Repeat(_, _)
Repeat(s, n) == IF n = 0 THEN "" ELSE s \o Repeat(s, n - 1)

\* a token of 310 digits
ManyNines == Repeat("9999999999", 31)

\* single class names, some of them not query classes
SomeClassNames ==
    {"", "db", "db-", "flex", "xdb-users", "DB-users", "db--users", "flex-db-users",
     "db-users", "db-users-name-where-id-1", "db-posts-title-limit-10",
     "db-products-orderby-price-desc", "db-users-where-x?-1-orderby-id-up",
     "db-1-limit-0", "db-users-id-where-id-?-name-x;y-limit-3",
     "db-users-orderby-1", "db-j1", "db-users-limit-0",
     "db-users-name-orderby-id-asc-limit-+5",
     "flex db-users-id db-posts-limit-2",
     "db-t-orderby-id-desc-limit-7-orderby-name-limit-x",
     "db-users-name-where-id-1-orderby-name-desc-limit-0",
     "db-where-id-1", "db-limit-limit-5", "db-orderby", "db-__proto__-id",
     "db-x?-id",
     "db-users-limit-" \o ManyNines}

\* the query classes that are given Join children
JoinedClassNames ==
    {"flex", "db-users", "db-users-name-where-id-1", "db-posts-title-limit-10",
     "db-products-orderby-price-desc", "db-users-where-x?-1-orderby-id-up",
     "db-users-id-where-id-?-name-x;y-limit-3", "db-j1", "db-users-limit-0",
     "db-users-name-where-id-1-orderby-name-desc-limit-0",
     "db-users-where-a-1-b-2-a-3", "db-users-where-id-1-__proto__-2-id-3"}

\* class attributes: two class names and the whitespace between them
SomePairs ==
    {a \o w \o b : a \in {"", "flex", "db-", "db-users-id", "db-1"},
                   b \in {"", "p4", "db-posts-limit-2", "db-"},
                   w \in {" ", "  ", "\t\n"}}

\* the props of a Join element
JoinProps(table, on, select, type) ==
    [table |-> table, on |-> on, select |-> select, type |-> type]

\* Join children of DB
JoinPool ==
    {[name |-> "Join", props |-> props] : props \in
        {JoinProps("posts", "id-author_id", <<"title">>, <<"left">>),
         JoinProps("posts", "id", <<>>, <<"inner">>),
         JoinProps("users", "editor-id", <<"name, title">>, <<"right">>),
         JoinProps("po sts", "id-author_id", <<"title">>, <<>>),
         JoinProps("posts", "1id-author_id", <<>>, <<>>),
         JoinProps("posts", "-", <<"">>, <<"inner">>),
         JoinProps("posts", "id-author_id", <<"title,a?">>, <<"left">>)}}

\* children of DB that are not Join elements
OtherChildren ==
    {[name |-> "span", props |-> JoinProps("posts", "", <<>>, <<>>)]}

JoinLists == SeqsUpTo(JoinPool, MaxJoins)

\* values of the endpoint's join parameter: table:parent-child:columns:kind
JoinParams ==
    {<<>>, <<"">>, <<"posts">>, <<"posts:id-author_id:title:left">>,
     <<"posts::title, body">>, <<"posts:id">>, <<"posts:-uid::inner">>,
     <<"users:id-id::constructor">>, <<"po sts:id-x">>,
     <<"posts:id-author_id:title:RIGHT">>, <<"posts:id-author_id:ti tle:right">>,
     <<"posts:id-author_id::right">>,
     <<"posts:id-author_id:title:inner", "users:id-id:name:left">>}

Init ==
    /\ \/ /\ classNames \in VocabClassNames \cup ChainClassNames \cup TailClassNames
                           \cup SomeClassNames
          /\ children = <<>>
          /\ caller = "DB"
          /\ joinParam = <<>>
       \/ /\ classNames \in SomePairs
          /\ children \in {<<>>} \cup {<<j>> : j \in JoinPool \cup OtherChildren}
          /\ caller = "DB"
          /\ joinParam = <<>>
       \/ /\ classNames \in JoinedClassNames
          /\ children \in JoinLists
          /\ caller = "DB"
          /\ joinParam = <<>>
       \/ /\ classNames \in SomeClassNames \cup SomePairs
          /\ children = <<>>
          /\ caller = "GET"
          /\ joinParam \in JoinParams
    /\ PlaygroundMounted
    /\ pc = "parseClassNames"
    /\ joins = <<>>
    /\ classes = <<>>
    /\ ci = 0
    /\ className = ""
    /\ parts = <<>>
    /\ i = 0
    /\ state = "column"
    /\ currentWhereField = ""
    /\ config = <<>>
    /\ raised = FALSE
    /\ built = NoResult
    /\ response = [kind |-> "none", status |-> 0]
    /\ executed = FALSE

Next ==
    \/ MissingClassName
    \/ ParseClassNames
    \/ ParseClassName
    \/ ReturnNull
    \/ Keyword
    \/ Column
    \/ WhereField
    \/ WhereValue
    \/ Limit
    \/ OrderbyField
    \/ OrderbyDir
    \/ ReturnConfig
    \/ NotAQueryClass
    \/ AttachJoins
    \/ ParseJoinParam
    \/ CallBuildQuery
    \/ Execute

Spec == Init /\ [][Next]_vars

\* the Playground on its own: the server has a request to answer and does
\* not move
PlaygroundInit ==
    /\ PlaygroundMounted
    /\ classNames = "db-users-limit-0"
    /\ children = <<>>
    /\ caller = "GET"
    /\ joinParam = <<>>
    /\ pc = "parseClassNames"
    /\ joins = <<>>
    /\ classes = <<>>
    /\ ci = 0
    /\ className = ""
    /\ parts = <<>>
    /\ i = 0
    /\ state = "column"
    /\ currentWhereField = ""
    /\ config = <<>>
    /\ raised = FALSE
    /\ built = NoResult
    /\ response = [kind |-> "none", status |-> 0]
    /\ executed = FALSE

PlaygroundNext ==
    \/ SetClassName
    \/ SetJoinField
    \/ ToggleJoin
    \/ ApplyExample
    \/ TimerFires
    \/ Respond
    \/ FetchFails

PlaygroundSpec == PlaygroundInit /\ [][PlaygroundNext]_vars

(***************************************************************************)
(* Vocabulary of the properties: the safe-identifier grammar and the       *)
(* identifier positions of a descriptor, stated apart from the builder.    *)
(***************************************************************************)
Range(f) == {f[n] : n \in DOMAIN f}

\* s matches [A-Za-z_][A-Za-z0-9_]*
MatchesGrammar(s) ==
    /\ Len(s) >= 1
    /\ \A k \in 1..Len(s) :
          \/ SubSeq(s, k, k) \in Lower \cup Upper \cup {"_"}
          \/ k > 1 /\ SubSeq(s, k, k) \in Digits

IdentifierPositions(cfg) ==
    {cfg.table}
    \cup Range(cfg.columns)
    \cup {cfg.where[n].field : n \in DOMAIN cfg.where}
    \cup {cfg.orderBy[n].field : n \in DOMAIN cfg.orderBy}
    \cup UNION {{j.table, j.parentColumn, j.childColumn} \cup Range(j.columns) :
                  j \in UNION {Range(cfg.joins[n]) : n \in DOMAIN cfg.joins}}

\* buildQuery was called with config[1] and its outcome is in built
BuildCalled == pc = "done" /\ config # <<>> /\ ~raised

BuildReturned == BuildCalled /\ built.sql # <<>>

ErrorPrefix == "Invalid identifier: "

CountChar(s, c) == Cardinality({k \in 1..Len(s) : SubSeq(s, k, k) = c})

\* position in s of the n-th occurrence of the character c
NthChar(s, c, n) ==
    CHOOSE k \in 1..Len(s) :
        SubSeq(s, k, k) = c /\ CountChar(SubSeq(s, 1, k), c) = n

\* the text of s that ends just before position k ends with suffix
EndsBefore(s, k, suffix) ==
    k - Len(suffix) >= 1 /\ SubSeq(s, k - Len(suffix), k - 1) = suffix

\* s cut at every occurrence of the string sep
RECURSIVE Pieces(_, _)
Pieces(s, sep) ==
    LET at == {k \in 1..(Len(s) - Len(sep) + 1) : SubSeq(s, k, k + Len(sep) - 1) = sep}
    IN  IF at = {} THEN <<s>>
        ELSE LET k == CHOOSE a \in at : \A b \in at : a <= b
             IN  <<SubSeq(s, 1, k - 1)>> \o Pieces(SubSeq(s, k + Len(sep), Len(s)), sep)

(***************************************************************************)
(* C1.  Injection safety: when any identifier position of the descriptor   *)
(* (table, columns, where keys, orderBy.field, a join's table,             *)
(* parentColumn, childColumn or columns) does not match the grammar,       *)
(* buildQuery fails with an invalid-identifier error and returns no text;  *)
(* so a returned text has only grammar-conforming identifiers.             *)
(***************************************************************************)
C1_InjectionSafety ==
    BuildCalled =>
        /\ (\E s \in IdentifierPositions(config[1]) : ~MatchesGrammar(s)) =>
              /\ built.threw
              /\ SubSeq(built.error, 1, Len(ErrorPrefix)) = ErrorPrefix
              /\ built.sql = <<>>
              /\ built.params = <<>>
        /\ built.sql # <<>> =>
              \A s \in IdentifierPositions(config[1]) : MatchesGrammar(s)

\* the build failed and the only bad identifier is the table of a join
C1_Witness ==
    /\ BuildCalled
    /\ built.threw
    /\ built.sql = <<>>
    /\ config[1].joins # <<>>
    /\ \E n \in DOMAIN config[1].joins[1] : ~MatchesGrammar(config[1].joins[1][n].table)
    /\ \A s \in IdentifierPositions(config[1]) :
          ~MatchesGrammar(s) => \E n \in DOMAIN config[1].joins[1] :
                                   s = config[1].joins[1][n].table

(***************************************************************************)
(* C2.  WHERE values and the LIMIT value never influence the text: a       *)
(* descriptor that differs from the built one only in the values bound to  *)
(* its where keys and in the value of its limit builds to the same text.   *)
(***************************************************************************)
ValueVariants == {"1", "?", "x' OR '1'='1"}

LimitVariants == {0, 7}

WithValues(cfg, vals, lim) ==
    [cfg EXCEPT
       !.where = [n \in 1..Len(cfg.where) |->
                    [field |-> cfg.where[n].field, value |-> vals[n]]],
       !.limit = IF cfg.limit = <<>> THEN <<>> ELSE <<lim>>]

C2_ValuesNotInText ==
    BuildReturned =>
        \A vals \in [1..Len(config[1].where) -> ValueVariants], lim \in LimitVariants :
            LET other == BuildQuery(WithValues(config[1], vals, lim))
            IN  /\ other.sql = built.sql
                /\ Len(other.params[1]) = Len(built.params[1])

\* a text was returned for a descriptor with a where value and a limit
C2_Witness ==
    /\ BuildReturned
    /\ Len(config[1].where) >= 1
    /\ config[1].limit # <<>>
    /\ \E n \in DOMAIN config[1].where : config[1].where[n].value \notin ValueVariants

(***************************************************************************)
(* C3.  The number of '?' placeholders in the returned text equals the     *)
(* length of params: one per where entry plus one when limit is defined.   *)
(***************************************************************************)
C3_PlaceholderCount ==
    BuildReturned =>
        /\ CountChar(built.sql[1], "?") = Len(built.params[1])
        /\ Len(built.params[1]) =
              Len(config[1].where) + (IF config[1].limit # <<>> THEN 1 ELSE 0)

\* a where value holds a '?' and a limit is set
C3_Witness ==
    /\ BuildReturned
    /\ config[1].limit # <<>>
    /\ \E n \in DOMAIN config[1].where : CountChar(config[1].where[n].value, "?") > 0

(***************************************************************************)
(* C4.  params is the where values in the iteration order of the where     *)
(* mapping, each the string the parser stored, followed by the numeric     *)
(* limit when there is one; the n-th '?' of the text follows the n-th      *)
(* where field, and the last one follows LIMIT.                            *)
(***************************************************************************)
C4_ParamsOrder ==
    BuildReturned =>
        LET cfg  == config[1]
            text == built.sql[1]
            ps   == built.params[1]
            nw   == Len(cfg.where)
        IN  /\ Len(ps) = nw + Len(cfg.limit)
            /\ CountChar(text, "?") = Len(ps)
            /\ \A n \in 1..nw :
                  /\ ps[n] = [type |-> "string", str |-> cfg.where[n].value, num |-> 0]
                  /\ \/ EndsBefore(text, NthChar(text, "?", n),
                                   " " \o cfg.where[n].field \o " = ")
                     \/ EndsBefore(text, NthChar(text, "?", n),
                                   "." \o cfg.where[n].field \o " = ")
            /\ cfg.limit # <<>> =>
                  /\ ps[nw + 1] = [type |-> "number", str |-> "", num |-> cfg.limit[1]]
                  /\ EndsBefore(text, NthChar(text, "?", nw + 1), " LIMIT ")
                  /\ NthChar(text, "?", nw + 1) = Len(text)

\* two where conditions with different values, and a limit
C4_Witness ==
    /\ BuildReturned
    /\ Len(config[1].where) = 2
    /\ config[1].where[1].value # config[1].where[2].value
    /\ config[1].limit # <<>>
    /\ Len(built.params[1]) = 3

(***************************************************************************)
(* C5.  Invalid identifier is the only failure mode of buildQuery: it      *)
(* returns text and params for every descriptor whose identifiers all      *)
(* match the grammar, and when it fails it names an identifier that does   *)
(* not match, produces no text and no params, and in both cases leaves     *)
(* the descriptor as it was.                                               *)
(***************************************************************************)
C5_OnlyFailureMode ==
    [][pc = "buildQuery" =>
         /\ config' = config
         /\ (\A s \in IdentifierPositions(config[1]) : MatchesGrammar(s)) =>
               /\ ~built'.threw
               /\ built'.sql # <<>>
               /\ built'.params # <<>>
         /\ built'.threw =>
               /\ built'.sql = <<>>
               /\ built'.params = <<>>
               /\ \E s \in IdentifierPositions(config[1]) :
                     /\ ~MatchesGrammar(s)
                     /\ built'.error = ErrorPrefix \o s
         /\ ~built'.threw => built'.sql # <<>> /\ built'.params # <<>>
      ]_vars

\* a text was returned for a descriptor with joins of two kinds, a where
\* value that is no identifier and a limit
C5_Witness ==
    /\ BuildReturned
    /\ config[1].joins # <<>>
    /\ Len(config[1].joins[1]) = 2
    /\ config[1].joins[1][1].type # config[1].joins[1][2].type
    /\ \E n \in DOMAIN config[1].where : ~MatchesGrammar(config[1].where[n].value)
    /\ config[1].limit = <<3>>

(***************************************************************************)
(* C6.  Join alias uniqueness: the text of a descriptor with N joins has   *)
(* N JOIN clauses, the n-th one names the alias j(n-1), the aliases are    *)
(* pairwise distinct, and the ON clause of each join qualifies the parent  *)
(* column by the base table and the child column by the join's own alias,  *)
(* never by the alias of another join.                                     *)
(***************************************************************************)
\* the words of the JOIN clauses of the text, one list of words per clause
JoinClauseWords(text) ==
    LET cut == Pieces(text, " JOIN ")
    IN  [n \in 1..(Len(cut) - 1) |-> Pieces(cut[n + 1], " ")]

\* the part of a qualified name before the dot
Qualifier(name) == Pieces(name, ".")[1]

C6_JoinAliases ==
    BuildReturned =>
        LET cfg   == config[1]
            N     == IF cfg.joins = <<>> THEN 0 ELSE Len(cfg.joins[1])
            words == JoinClauseWords(built.sql[1])
            alias == [n \in 1..N |-> words[n][3]]
        IN  /\ Len(words) = N
            /\ \A n \in 1..N :
                  /\ words[n][2] = "AS"
                  /\ alias[n] = "j" \o ToString(n - 1)
                  /\ words[n][4] = "ON"
                  /\ Qualifier(words[n][5]) = cfg.table
                  /\ words[n][6] = "="
                  /\ Qualifier(words[n][7]) = alias[n]
                  /\ \A m \in 1..N : m # n =>
                        /\ alias[m] # alias[n]
                        /\ Qualifier(words[n][7]) # alias[m]

\* two joins of the same table were built
C6_Witness ==
    /\ BuildReturned
    /\ config[1].joins # <<>>
    /\ Len(config[1].joins[1]) >= 2
    /\ config[1].joins[1][1].table = config[1].joins[1][2].table
    /\ config[1].joins[1][1] # config[1].joins[1][2]

(***************************************************************************)
(* C7.  The result keys given by the 'AS {table}_{column}' projections of  *)
(* all joins of a built descriptor are pairwise distinct, also when two    *)
(* joins name the same table and request the same column.                  *)
(***************************************************************************)
\* the names after AS in the select list of the text, in order
ProjectedKeys(text) ==
    LET list  == Pieces(Pieces(SubSeq(text, Len("SELECT ") + 1, Len(text)), " FROM ")[1], ", ")
        named == SelectSeq(list, LAMBDA item : Len(Pieces(item, " AS ")) = 2)
    IN  [n \in 1..Len(named) |-> Pieces(named[n], " AS ")[2]]

C7_DistinctJoinKeys ==
    BuildReturned =>
        LET keys == ProjectedKeys(built.sql[1])
        IN  \A a, b \in 1..Len(keys) : a # b => keys[a] # keys[b]

(***************************************************************************)
(* C8.  parseClassName never raises; it returns null exactly when the      *)
(* class name does not start with 'db-' or the text between the prefix     *)
(* and the next '-' is empty; otherwise it returns a descriptor whose      *)
(* table is that text, whatever follows.                                   *)
(***************************************************************************)
\* the text of cn after its first three characters, up to the next '-'
FirstToken(cn) ==
    SubSeq(cn, 4, CHOOSE e \in 3..Len(cn) :
                     /\ e = Len(cn) \/ SubSeq(cn, e + 1, e + 1) = "-"
                     /\ \A j \in 4..e : SubSeq(cn, j, j) # "-")

NotAClass(cn) == Len(cn) < 3 \/ SubSeq(cn, 1, 3) # "db-" \/ FirstToken(cn) = ""

C8_ParseClassNameTotal ==
    /\ ~raised
    \* parseClassName(className) has just returned null
    /\ (pc = "forClass" /\ ci > 1) => NotAClass(className)
    \* parseClassName(className) did not return null
    /\ (pc \in {"while", "buildQuery"} \/ (pc \in {"caller", "done"} /\ config # <<>>)) =>
          /\ ~NotAClass(className)
          /\ config # <<>>
          /\ config[1].table = FirstToken(className)
    \* parseClassNames returned null: every class name was rejected
    /\ (pc \in {"caller", "done"} /\ config = <<>>) =>
          \A n \in 1..Len(classes) : NotAClass(classes[n])

\* a descriptor was returned for the second class name of the input, which
\* has tokens after its table, after the first one was rejected
C8_Witness ==
    /\ pc = "caller"
    /\ config # <<>>
    /\ ci = 2
    /\ NotAClass(classes[1])
    /\ Len(parts) >= 3
    /\ config[1].table = "posts"

(***************************************************************************)
(* C9.  Reserved keywords force an unconditional transition: in every      *)
(* parser state the token 'where' moves the parser to where_field,         *)
(* 'limit' to limit and 'orderby' to orderby_field, and consuming the      *)
(* keyword leaves columns, where, limit and orderBy unchanged.             *)
(***************************************************************************)
C9_KeywordTransitions ==
    [][(pc = "while" /\ i < Len(parts)
        /\ parts[i + 1] \in {"where", "limit", "orderby"}) =>
         /\ parts[i + 1] = "where"   => state' = "where_field"
         /\ parts[i + 1] = "limit"   => state' = "limit"
         /\ parts[i + 1] = "orderby" => state' = "orderby_field"
         /\ i' = i + 1
         /\ pc' = "while"
         /\ config'[1].columns = config[1].columns
         /\ config'[1].where = config[1].where
         /\ config'[1].limit = config[1].limit
         /\ config'[1].orderBy = config[1].orderBy
      ]_vars

\* 'orderby' has just been consumed where the value of a where field was due
C9_Witness ==
    /\ pc = "while"
    /\ i >= 3
    /\ parts[i] = "orderby"
    /\ parts[i - 1] \notin {"where", "limit", "orderby"}
    /\ parts[i - 2] = "where"
    /\ state = "orderby_field"
    /\ config[1].where = <<>>

(***************************************************************************)
(* C10.  Chained where conditions: after 'where', successive non-keyword   *)
(* tokens are taken as alternating field, value pairs until the next       *)
(* keyword; each completed pair sets where[field] = value, a later pair    *)
(* for the same field overwrites the earlier value, and the number of      *)
(* where keys is the number of distinct fields of the completed pairs.     *)
(***************************************************************************)
\* the completed field, value pairs among the tokens ps[2..upto], read as
\* the claim reads them; mode is "other", "field" or "value"
RECURSIVE CompletedPairs(_, _, _, _, _)
CompletedPairs(ps, k, upto, mode, field) ==
    IF k > upto THEN <<>>
    ELSE IF ps[k] = "where" THEN CompletedPairs(ps, k + 1, upto, "field", "")
    ELSE IF ps[k] \in {"limit", "orderby"} THEN CompletedPairs(ps, k + 1, upto, "other", "")
    ELSE IF mode = "field" THEN CompletedPairs(ps, k + 1, upto, "value", ps[k])
    ELSE IF mode = "value" THEN
        <<[field |-> field, value |-> ps[k]]>>
        \o CompletedPairs(ps, k + 1, upto, "field", "")
    ELSE CompletedPairs(ps, k + 1, upto, "other", "")

C10_ChainedWhere ==
    pc = "while" =>
        LET pairs  == CompletedPairs(parts, 2, i, "other", "")
            fields == {pairs[n].field : n \in DOMAIN pairs}
            where  == config[1].where
        IN  /\ {where[n].field : n \in DOMAIN where} = fields
            /\ Len(where) = Cardinality(fields)
            /\ \A n \in DOMAIN where :
                  LET last == CHOOSE m \in DOMAIN pairs :
                                /\ pairs[m].field = where[n].field
                                /\ \A q \in DOMAIN pairs :
                                      pairs[q].field = where[n].field => q <= m
                  IN  where[n].value = pairs[last].value


(***************************************************************************)
(* C11 to C20                                                              *)
(***************************************************************************)

\* the token the loop is about to consume in the given state
Consumes(st) ==
    /\ pc = "while"
    /\ i < Len(parts)
    /\ state = st
    /\ parts[i + 1] \notin {"where", "limit", "orderby"}

\* the number a string of digits writes, read from its last digit
RECURSIVE Decimal(_)
Decimal(s) ==
    IF s = "" THEN 0
    ELSE 10 * Decimal(SubSeq(s, 1, Len(s) - 1)) + DigitValue[SubSeq(s, Len(s), Len(s))]

\* the Number a string of digits is read as: with more than 309 digits from
\* its first one that is not 0, it is beyond every double
NumberOf(s) ==
    LET nonzero == {k \in 1..Len(s) : SubSeq(s, k, k) # "0"}
    IN  IF \E k \in nonzero : Len(s) - k >= 309 THEN Infinity ELSE Decimal(s)

\* <<n>> when s begins with a base-10 integer n, <<>> when it does not
LeadingInteger(s) ==
    LET signed == Len(s) > 0 /\ SubSeq(s, 1, 1) \in {"+", "-"}
        from   == IF signed THEN 2 ELSE 1
        stops  == {k \in from..Len(s) : SubSeq(s, k, k) \notin Digits}
        to     == IF stops = {} THEN Len(s)
                  ELSE (CHOOSE k \in stops : \A m \in stops : k <= m) - 1
    IN  IF to < from THEN <<>>
        ELSE IF SubSeq(s, 1, 1) = "-" THEN <<0 - NumberOf(SubSeq(s, from, to))>>
        ELSE <<NumberOf(SubSeq(s, from, to))>>

\* C11: a non-keyword token consumed in state limit becomes the limit when it
\* parses as a base-10 integer; when it does not, nothing is raised, the limit
\* set before stays and the token is recorded nowhere; the next state is
\* column in both cases.
C11_LimitState ==
    [][Consumes("limit") =>
          /\ state' = "column"
          /\ pc' = "while"
          /\ ~raised'
          /\ i' = i + 1
          /\ currentWhereField' = currentWhereField
          /\ config' # <<>>
          /\ \A f \in {"table", "columns", "where", "orderBy", "joins"} :
                config'[1][f] = config[1][f]
          /\ config'[1].limit = IF LeadingInteger(parts[i + 1]) # <<>>
                                THEN LeadingInteger(parts[i + 1])
                                ELSE config[1].limit]_vars

\* a token that is no integer was dropped after a limit had been set, and a
\* token with an integer in front was taken
C11_Witness ==
    /\ pc = "while"
    /\ i >= 4
    /\ state = "column"
    /\ parts[i - 3] = "limit"
    /\ LeadingInteger(parts[i - 2]) # <<>>
    /\ parts[i - 2] \notin {"7", "10"}
    /\ parts[i - 1] = "limit"
    /\ LeadingInteger(parts[i]) = <<>>
    /\ config[1].limit = LeadingInteger(parts[i - 2])
    /\ config[1].columns = <<>>

\* C12: a non-keyword token in orderby_field sets orderBy to that field with
\* direction asc and moves to orderby_dir; the next non-keyword token changes
\* the direction only if it is asc or desc, is not added to columns, and the
\* state returns to column; so the direction of an orderBy is asc or desc in
\* every descriptor.
C12_OrderByParsing ==
    [][/\ Consumes("orderby_field") =>
             /\ config' # <<>>
             /\ config'[1].orderBy = <<[field |-> parts[i + 1], direction |-> "asc"]>>
             /\ state' = "orderby_dir"
             /\ config'[1].columns = config[1].columns
       /\ (Consumes("orderby_dir") /\ config[1].orderBy # <<>>) =>
             /\ config' # <<>>
             /\ config'[1].orderBy =
                   <<[field |-> config[1].orderBy[1].field,
                      direction |-> IF parts[i + 1] \in {"asc", "desc"}
                                    THEN parts[i + 1]
                                    ELSE config[1].orderBy[1].direction]>>
             /\ config[1].orderBy[1].direction = "asc"
             /\ config'[1].columns = config[1].columns
             /\ state' = "column"
             /\ ~raised'
       /\ (config' # <<>> /\ config'[1].orderBy # <<>>) =>
             config'[1].orderBy[1].direction \in {"asc", "desc"}]_vars

\* a descriptor was returned after a token that is no direction followed the
\* field, and the direction is asc
C12_Witness ==
    /\ pc = "caller"
    /\ config # <<>>
    /\ \E k \in 2..(Len(parts) - 2) :
          /\ parts[k] = "orderby"
          /\ parts[k + 1] = "id"
          /\ parts[k + 2] \notin {"asc", "desc", "where", "limit", "orderby"}
          /\ \A j \in (k + 1)..Len(parts) : parts[j] # "orderby"
    /\ config[1].orderBy = <<[field |-> "id", direction |-> "asc"]>>
    /\ config[1].columns = <<>>


\* what the grammar of the class name says about the tokens ts from the k-th
\* on: <<>> when they are not made of its segments, else the descriptor read
\* so far, with the <column> tokens in order, the <field>/<value> pairs, the
\* <int>s and the field/direction pairs given
RECURSIVE Segments(_, _, _)
Segments(ts, k, acc) ==
    LET word(n) == n <= Len(ts) /\ ts[n] \notin {"where", "limit", "orderby"}
        int(n)  == word(n) /\ \A c \in 1..Len(ts[n]) : SubSeq(ts[n], c, c) \in Digits
    IN  IF k > Len(ts) THEN <<acc>>
        ELSE IF ts[k] = "where"
        THEN IF word(k + 1) /\ word(k + 2)
             THEN Segments(ts, k + 3,
                     [acc EXCEPT !.pairs = @ \cup {<<ts[k + 1], ts[k + 2]>>}])
             ELSE <<>>
        ELSE IF ts[k] = "limit"
        THEN IF int(k + 1)
             THEN Segments(ts, k + 2,
                     [acc EXCEPT !.limits = @ \cup {NumberOf(ts[k + 1])}])
             ELSE <<>>
        ELSE IF ts[k] = "orderby"
        THEN IF word(k + 1)
             THEN IF k + 2 <= Len(ts) /\ ts[k + 2] \in {"asc", "desc"}
                  THEN Segments(ts, k + 3,
                          [acc EXCEPT !.orders = @ \cup
                             {[field |-> ts[k + 1], direction |-> ts[k + 2]]}])
                  ELSE Segments(ts, k + 2,
                          [acc EXCEPT !.orders = @ \cup
                             {[field |-> ts[k + 1], direction |-> "asc"]}])
             ELSE <<>>
        ELSE Segments(ts, k + 1, [acc EXCEPT !.columns = Append(@, ts[k])])

NoSegments == [columns |-> <<>>, pairs |-> {}, limits |-> {}, orders |-> {}]

\* C13: for a query class made of the grammar's segments in any order after
\* the table, the descriptor parseClassName returns has exactly the <column>
\* tokens in order as columns, holds every <field>/<value> pair in where, has
\* the <int> as limit and the field/direction given as orderBy (stated for
\* the class names without the field __proto__, which C10 is about).
C13_SegmentsAnyOrder ==
    (/\ pc = "caller"
     /\ config # <<>>
     /\ Segments(parts, 2, NoSegments) # <<>>
     /\ \A n \in 2..Len(parts) : parts[n] # "__proto__") =>
        LET g == Segments(parts, 2, NoSegments)[1]
            c == config[1]
        IN  /\ c.columns = g.columns
            /\ \A p \in g.pairs :
                  \E n \in 1..Len(c.where) :
                     /\ c.where[n].field = p[1]
                     /\ <<p[1], c.where[n].value>> \in g.pairs
            /\ \A n \in 1..Len(c.where) :
                  <<c.where[n].field, c.where[n].value>> \in g.pairs
            /\ IF g.limits = {} THEN c.limit = <<>>
               ELSE c.limit # <<>> /\ c.limit[1] \in g.limits
            /\ IF g.orders = {} THEN c.orderBy = <<>>
               ELSE c.orderBy # <<>> /\ c.orderBy[1] \in g.orders


\* the candidates of an input: its maximal runs of characters that are not
\* whitespace, from left to right
WordStarts(s) ==
    {k \in 1..Len(s) :
        /\ SubSeq(s, k, k) \notin Whitespace
        /\ k = 1 \/ SubSeq(s, k - 1, k - 1) \in Whitespace}

WordAt(s, k) ==
    SubSeq(s, k, CHOOSE e \in k..Len(s) :
                    /\ e = Len(s) \/ SubSeq(s, e + 1, e + 1) \in Whitespace
                    /\ \A j \in k..e : SubSeq(s, j, j) \notin Whitespace)

\* the starts of the structurally valid candidates
ValidStarts(s) == {k \in WordStarts(s) : ~NotAClass(WordAt(s, k))}

\* parseClassNames has returned a descriptor
Chosen == pc = "caller" /\ config # <<>>

\* C14: parseClassNames tries the whitespace-separated candidates from left
\* to right and returns the descriptor of the first one that has the prefix
\* 'db-' and a non-empty table; no candidate after it is parsed, and the
\* result is null if and only if no candidate is structurally valid.
C14_FirstValidCandidate ==
    /\ Chosen =>
          LET starts == WordStarts(classNames)
              valid  == {k \in starts : ~NotAClass(WordAt(classNames, k))}
              first  == CHOOSE k \in valid : \A m \in valid : k <= m
          IN  /\ valid # {}
              /\ className = WordAt(classNames, first)
              \* the candidates tried are those that start no later than it
              /\ Cardinality({n \in 1..ci : classes[n] # ""}) =
                    Cardinality({k \in starts : k <= first})
              /\ parts = Pieces(SubSeq(className, 4, Len(className)), "-")
              /\ config[1].table = parts[1]
    /\ (pc \in {"caller", "done"} /\ response.kind # "missing" /\ config = <<>>) =>
          ValidStarts(classNames) = {}

\* the first candidate is not a query class, the second one was chosen, and
\* a valid candidate after it was not tried
C14_Witness ==
    /\ pc = "caller"
    /\ config # <<>>
    /\ ci = 2
    /\ Len(classes) = 3
    /\ Cardinality(WordStarts(classNames)) = 3
    /\ Cardinality(ValidStarts(classNames)) = 2
    /\ config[1].table = "users"


\* the places of text where sub stands
Occurrences(text, sub) ==
    {k \in 1..(Len(text) - Len(sub) + 1) : SubSeq(text, k, k + Len(sub) - 1) = sub}

\* the JOIN clause the n-th join j of a descriptor with the given base table
\* is to have
ClauseOf(base, j, n) ==
    j.type \o " JOIN " \o j.table \o " AS j" \o ToString(n - 1)
    \o " ON " \o base \o "." \o j.parentColumn
    \o " = j" \o ToString(n - 1) \o "." \o j.childColumn

\* C15: for every join i of a successfully built descriptor the text holds
\* the clause '{KIND} JOIN {table} AS j{i} ON {base}.{parentColumn} =
\* j{i}.{childColumn}' with the kind in upper case, and the JOIN clauses stand
\* in the text in the order of the joins list.
C15_JoinClauseShape ==
    (BuildReturned /\ config[1].joins # <<>>) =>
        LET js   == config[1].joins[1]
            text == built.sql[1]
            at(n) == Occurrences(text, " " \o ClauseOf(config[1].table, js[n], n))
        IN  /\ \A n \in 1..Len(js) :
                  /\ js[n].type \in {"INNER", "LEFT", "RIGHT"}
                  /\ at(n) # {}
            /\ \A n \in 1..(Len(js) - 1) :
                  \A a \in at(n), b \in at(n + 1) : a < b

\* the items of a list written one after the other with ", " between them
RECURSIVE Listed(_, _)
Listed(items, n) ==
    IF n = 0 THEN ""
    ELSE IF n = 1 THEN items[1]
    ELSE Listed(items, n - 1) \o ", " \o items[n]

\* the projection of the joins up to the n-th, each item with ", " in front
RECURSIVE JoinsProjected(_, _)
JoinsProjected(js, n) ==
    IF n = 0 THEN ""
    ELSE JoinsProjected(js, n - 1) \o ", " \o
         (IF js[n].columns = <<>> THEN "j" \o ToString(n - 1) \o ".*"
          ELSE Listed([m \in 1..Len(js[n].columns) |->
                         "j" \o ToString(n - 1) \o "." \o js[n].columns[m]
                         \o " AS " \o js[n].table \o "_" \o js[n].columns[m]],
                      Len(js[n].columns)))

\* the select list the projection rule gives for a descriptor
Projection(c) ==
    LET js     == IF c.joins = <<>> THEN <<>> ELSE c.joins[1]
        joined == js # <<>>
        base   == IF c.columns = <<>>
                  THEN IF joined THEN c.table \o ".*" ELSE "*"
                  ELSE Listed([m \in 1..Len(c.columns) |->
                                 IF joined THEN c.table \o "." \o c.columns[m]
                                 ELSE c.columns[m]],
                              Len(c.columns))
    IN  base \o JoinsProjected(js, Len(js))

\* C16: with no explicit base columns the base projection is '{table}.*'
\* when joins is non-empty and bare '*' when joins is absent or empty; explicit
\* base columns are emitted in order, prefixed with '{table}.' if and only if
\* joins is non-empty; then each join contributes, in joins order, its
\* columns as 'j{i}.{column} AS {table}_{column}', or 'j{i}.*' when it has none.
C16_ProjectionRule ==
    BuildReturned =>
        LET head == "SELECT " \o Projection(config[1]) \o " FROM "
        IN  /\ Len(built.sql[1]) >= Len(head)
            /\ SubSeq(built.sql[1], 1, Len(head)) = head

\* a text was built for explicit base columns and two joins, the first with
\* columns and the second without
C16_Witness ==
    /\ BuildReturned
    /\ config[1].columns # <<>>
    /\ config[1].joins # <<>>
    /\ Len(config[1].joins[1]) = 2
    /\ config[1].joins[1][1].columns # <<>>
    /\ config[1].joins[1][2].columns = <<>>

\* the conditions of the where entries up to the n-th, AND between them
RECURSIVE Conditions(_, _, _)
Conditions(where, prefix, n) ==
    IF n = 0 THEN ""
    ELSE (IF n = 1 THEN "" ELSE Conditions(where, prefix, n - 1) \o " AND ")
         \o prefix \o where[n].field \o " = ?"

\* what is to follow the JOIN clauses: WHERE, then ORDER BY, then LIMIT
ClausesAfterJoins(c) ==
    LET prefix == IF c.joins # <<>> /\ c.joins[1] # <<>> THEN c.table \o "." ELSE ""
    IN  (IF c.where # <<>>
         THEN " WHERE " \o Conditions(c.where, prefix, Len(c.where)) ELSE "")
        \o (IF c.orderBy # <<>>
            THEN " ORDER BY " \o prefix \o c.orderBy[1].field \o " "
                 \o (CASE c.orderBy[1].direction = "asc" -> "ASC"
                       [] c.orderBy[1].direction = "desc" -> "DESC")
            ELSE "")
        \o (IF c.limit # <<>> THEN " LIMIT ?" ELSE "")

\* C17: every text of buildQuery is the SELECT list, FROM and the base table,
\* the JOIN clauses, then WHERE, ORDER BY and LIMIT in that order; WHERE is
\* there iff where is non-empty ('field = ?' joined by AND), ORDER BY iff
\* orderBy is set (direction in upper case), 'LIMIT ?' iff limit is defined,
\* 0 included; WHERE and ORDER BY fields carry the base table iff joins is
\* non-empty.
C17_ClauseOrder ==
    BuildReturned =>
        LET text  == built.sql[1]
            after == ClausesAfterJoins(config[1])
            n     == Len(text) - Len(after)
            head  == SubSeq(text, 1, n)
            from  == Occurrences(head, " FROM " \o config[1].table)
            joinsAt == Occurrences(head, " JOIN ")
        IN  /\ n >= 7
            /\ SubSeq(text, n + 1, Len(text)) = after
            /\ SubSeq(head, 1, 7) = "SELECT "
            /\ Cardinality(Occurrences(head, " FROM ")) = 1
            /\ Cardinality(from) = 1
            /\ Cardinality(joinsAt) =
                  IF config[1].joins = <<>> THEN 0 ELSE Len(config[1].joins[1])
            /\ \A f \in from, j \in joinsAt : f < j
            /\ joinsAt = {} => \E f \in from : f + 5 + Len(config[1].table) = n
            /\ \A word \in {" WHERE ", " ORDER BY ", " LIMIT ", "?"} :
                  Occurrences(head, word) = {}

\* a text was built for a descriptor with a join, a where condition, an
\* orderBy and the limit 0
C17_Witness ==
    /\ BuildReturned
    /\ config[1].joins # <<>>
    /\ config[1].where # <<>>
    /\ config[1].orderBy # <<>>
    /\ config[1].orderBy[1].direction = "desc"
    /\ config[1].limit = <<0>>

\* parseClassNames was called and returned null
ReturnedNull == pc \in {"caller", "done"} /\ config = <<>> /\ response.kind # "missing"

\* C18: in the DB component and in the query endpoint, when parseClassNames
\* returns null buildQuery is not called and no statement is prepared or
\* executed; the caller gets an error result, with status 400 from the
\* endpoint.  A failure of buildQuery is an error result, with status 500,
\* and no statement is executed.
C18_PipelineStops ==
    /\ pc \in {"buildQuery", "execute"} => config # <<>>
    /\ ReturnedNull =>
          /\ built = NoResult
          /\ ~executed
          /\ pc = "done" =>
                /\ response.kind = "invalid"
                /\ caller = "GET" => response.status = 400
    /\ built.threw =>
          /\ pc = "done"
          /\ ~executed
          /\ response.kind = "error"
          /\ caller = "GET" => response.status = 500
    /\ executed => config # <<>> /\ built.sql # <<>>

\* the endpoint has answered 400 for a className that holds no query class
C18_Witness ==
    /\ pc = "done"
    /\ caller = "GET"
    /\ classNames # ""
    /\ config = <<>>
    /\ response = [kind |-> "invalid", status |-> 400]
    /\ ~executed

\* C20: in every descriptor of parseClassName the limit, if present, is a
\* non-negative integer.
C20_LimitNonNegative ==
    (pc \in {"while", "caller", "buildQuery", "execute", "done"} /\ config # <<>>) =>
        (config[1].limit # <<>> =>
            /\ config[1].limit[1] >= 0
            /\ IsInteger(config[1].limit[1]))


(***************************************************************************)
(* C21 to C28                                                              *)
(***************************************************************************)

\* the identifiers the parser puts into a descriptor
ParsedIdentifiers(c) ==
    {c.table} \cup Range(c.columns)
    \cup {c.where[n].field : n \in DOMAIN c.where}
    \cup {c.orderBy[n].field : n \in DOMAIN c.orderBy}

\* C21: in every descriptor returned by parseClassName the table, every entry
\* of columns, every where key and orderBy.field match the grammar
\* [A-Za-z_][A-Za-z0-9_]*.
C21_ParserIdentifiers ==
    (pc = "caller" /\ config # <<>>) =>
        \A s \in ParsedIdentifiers(config[1]) : MatchesGrammar(s)

\* C21, amended: parseClassName does not test identifiers, it stores the
\* tokens of the class name as they are written; a descriptor holds only
\* identifiers of the grammar if and only if buildQuery returns a text for it,
\* and buildQuery throws for every other descriptor.
C21_IdentifiersAtBuild ==
    /\ (pc = "caller" /\ config # <<>>) =>
          ParsedIdentifiers(config[1]) \subseteq Range(parts)
    /\ BuildCalled =>
          /\ built.sql # <<>> <=>
                \A s \in IdentifierPositions(config[1]) : MatchesGrammar(s)
          /\ built.threw <=> built.sql = <<>>

\* the parser returned a descriptor whose table and one column are outside
\* the grammar, no join was added, and buildQuery threw
C21_Witness ==
    /\ BuildCalled
    /\ config[1].joins = <<>>
    /\ ~MatchesGrammar(config[1].table)
    /\ \E n \in DOMAIN config[1].columns : ~MatchesGrammar(config[1].columns[n])
    /\ built.threw


\* C24: when the tokens end, or a reserved keyword arrives, while the parser
\* is in where_value, the pending field is discarded: the where mapping is
\* unchanged, nothing is raised, and buildQuery emits no condition for it
\* ('db-users-where-id' builds a query with no WHERE clause).
C24_PendingWhereField ==
    [][/\ (pc = "while" /\ state = "where_value") =>
             /\ ~raised'
             /\ pc' \in {"while", "caller"}
             /\ (i >= Len(parts) \/ parts[i + 1] \in {"where", "limit", "orderby"}) =>
                   /\ config' = config
                   /\ i >= Len(parts) => pc' = "caller"
       /\ (pc' = "caller" /\ config' # <<>>) =>
             \A n \in DOMAIN config'[1].where :
                \E m \in DOMAIN CompletedPairs(parts', 2, Len(parts'), "other", "") :
                   CompletedPairs(parts', 2, Len(parts'), "other", "")[m].field
                      = config'[1].where[n].field
       /\ (pc = "buildQuery" /\ ~built'.threw) =>
             /\ Cardinality(Occurrences(built'.sql[1], " = ?")) = Len(config[1].where)
             /\ config[1].where = <<>> => Occurrences(built'.sql[1], " WHERE ") = {}
             /\ (className = "db-users-where-id" /\ config[1].joins = <<>>) =>
                   built'.sql[1] = "SELECT * FROM users"]_vars

\* a text was built for a class name that ends with a where field that has
\* no value, after a pair for another field
C24_Witness ==
    /\ BuildReturned
    /\ state = "where_value"
    /\ Len(config[1].where) = 1
    /\ currentWhereField # config[1].where[1].field
    /\ parts[Len(parts)] = currentWhereField


\* the fields of the first n pairs, each once, in the order of their first
\* occurrence
RECURSIVE FirstFields(_, _)
FirstFields(pairs, n) ==
    IF n = 0 THEN <<>>
    ELSE LET before == FirstFields(pairs, n - 1)
         IN  IF \E m \in 1..(n - 1) : pairs[m].field = pairs[n].field THEN before
             ELSE Append(before, pairs[n].field)

\* the value of the last pair for a field
LatestValue(pairs, f) ==
    pairs[CHOOSE m \in DOMAIN pairs :
            /\ pairs[m].field = f
            /\ \A q \in DOMAIN pairs : pairs[q].field = f => q <= m].value

\* C25: when a later where segment overwrites the value of a field, the
\* field keeps the place of its first occurrence: the WHERE conditions and
\* their params are ordered by first insertion of each field, with the latest
\* value, and there are as many conditions as distinct fields.
C25_OverwriteKeepsPlace ==
    LET pairs  == CompletedPairs(parts, 2, Len(parts), "other", "")
        fields == FirstFields(pairs, Len(pairs))
        prefix == IF config[1].joins # <<>> /\ config[1].joins[1] # <<>>
                  THEN config[1].table \o "." ELSE ""
    IN  (/\ BuildReturned
         /\ \E m, n \in DOMAIN pairs : m < n /\ pairs[m].field = pairs[n].field) =>
            /\ Cardinality(Occurrences(built.sql[1], " = ?")) = Len(fields)
            /\ Occurrences(built.sql[1],
                  " WHERE " \o Conditions([n \in DOMAIN fields |-> [field |-> fields[n]]],
                                          prefix, Len(fields))) # {}
            /\ Len(built.params[1]) >= Len(fields)
            /\ \A n \in DOMAIN fields :
                  built.params[1][n] =
                     [type |-> "string", str |-> LatestValue(pairs, fields[n]), num |-> 0]


\* the decimal digits a token starts with, after a '+' if it has one
LeadingDigits(s) ==
    LET from  == IF Len(s) > 0 /\ SubSeq(s, 1, 1) = "+" THEN 2 ELSE 1
        stops == {k \in from..Len(s) : SubSeq(s, k, k) \notin Digits}
        to    == IF stops = {} THEN Len(s)
                 ELSE (CHOOSE k \in stops : \A m \in stops : k <= m) - 1
    IN  SubSeq(s, from, to)

\* C26: a token consumed in state limit sets limit whenever it begins with
\* decimal digits, after an optional '+', even if other characters follow:
\* limit becomes the value of that digit run; limit is left as it was only
\* when the token has no leading digit run.  (The value of a run is compared
\* for runs of up to nine digits; of a longer one it is said to be an integer.)
C26_LeadingDigitRun ==
    [][Consumes("limit") =>
          LET run == LeadingDigits(parts[i + 1])
          IN  /\ config' # <<>>
              /\ IF run = "" THEN config'[1].limit = config[1].limit
                 ELSE /\ config'[1].limit # <<>>
                      /\ IsInteger(config'[1].limit[1])
                      /\ Len(run) <= 9 => config'[1].limit[1] = Decimal(run)]_vars


\* C27: repeated limit and orderby segments are last-wins: after any token
\* sequence limit is the value of the last limit token that parsed, and
\* orderBy is the field of the last token consumed in orderby_field, with
\* the direction given by the token directly after it if that is asc or
\* desc, and asc otherwise; an earlier direction is never carried over.
C27_LastWins ==
    (pc \in {"while", "caller"} /\ config # <<>>) =>
        LET word(k) == parts[k] \notin {"where", "limit", "orderby"}
            limits  == {k \in 3..i : /\ parts[k - 1] = "limit"
                                     /\ word(k)
                                     /\ LeadingInteger(parts[k]) # <<>>}
            orders  == {k \in 3..i : parts[k - 1] = "orderby" /\ word(k)}
            last(S) == CHOOSE k \in S : \A m \in S : m <= k
        IN  /\ config[1].limit =
                  IF limits = {} THEN <<>> ELSE LeadingInteger(parts[last(limits)])
            /\ config[1].orderBy =
                  IF orders = {} THEN <<>>
                  ELSE <<[field |-> parts[last(orders)],
                          direction |->
                             IF last(orders) + 1 <= i
                                /\ parts[last(orders) + 1] \in {"asc", "desc"}
                             THEN parts[last(orders) + 1] ELSE "asc"]>>

\* a descriptor was returned for two orderby segments, the first with desc
\* and the second without a direction, and two limit tokens, the second of
\* which did not parse
C27_Witness ==
    /\ pc = "caller"
    /\ config # <<>>
    /\ Cardinality({k \in 2..Len(parts) : parts[k] = "orderby"}) = 2
    /\ Cardinality({k \in 2..Len(parts) : parts[k] = "limit"}) = 2
    /\ \E k \in 2..Len(parts) : parts[k] = "desc"
    /\ config[1].orderBy = <<[field |-> "name", direction |-> "asc"]>>
    /\ config[1].limit = <<7>>


\* the n-th column name of an on-clause 'parent-child', "" when it is missing
OnColumn(on, n) ==
    LET cols == Pieces(on, "-")
    IN  IF n <= Len(cols) THEN cols[n] ELSE ""

\* the join descriptor j of table t has the default of every column that the
\* on-clause omits
KeyDefaults(j, t, on) ==
    /\ OnColumn(on, 1) = "" => j.parentColumn = "id"
    /\ OnColumn(on, 2) = "" => j.childColumn = t \o "_id"

\* the Join elements among the children of DB
JoinChildren == SelectSeq(children, LAMBDA child : child.name = "Join")

\* the endpoint has read its join parameter and stored a join
JoinStored ==
    /\ caller = "GET"
    /\ pc \in {"buildQuery", "execute", "done"}
    /\ config # <<>>
    /\ HasJoins(config[1])

\* C22: a join descriptor has parentColumn 'id' when its on-clause omits the
\* parent column and childColumn '{table}_id' when it omits the child column
\* (missing or empty), whether parseJoinProps, the DB component's
\* parseJoinChild or the endpoint built it, the endpoint also when the whole
\* on-clause segment is empty.
C22_JoinKeyDefaults ==
    /\ (caller = "DB" /\ pc \in {"buildQuery", "execute", "done"} /\ config # <<>>) =>
          /\ Len(joins) = Len(JoinChildren)
          /\ \A n \in 1..Len(joins) :
                LET props == JoinChildren[n].props
                IN  /\ KeyDefaults(joins[n], props.table, props.on)
                    /\ KeyDefaults(ParseJoinProps(props), props.table, props.on)
    /\ JoinStored =>
          LET joinParts == Pieces(joinParam[1], ":")
          IN  KeyDefaults(JoinsOf(config[1])[1], joinParts[1], joinParts[2])


\* the join descriptors of the request: the values of 'join' that have a
\* table and an on-clause segment
JoinsReceived ==
    SelectSeq(joinParam, LAMBDA v : v # "" /\ Len(Pieces(v, ":")) >= 2)

\* the kind of the join descriptor v: its fourth segment
KindReceived(v) ==
    LET segments == Pieces(v, ":")
    IN  IF Len(segments) >= 4 THEN segments[4] ELSE ""

\* C23: the query endpoint accepts several join descriptors in one request
\* and stores all of them in joins in the order received; a join whose kind
\* is omitted or unrecognized gets kind LEFT.
C23_EndpointJoins ==
    (caller = "GET" /\ pc \in {"buildQuery", "execute", "done"} /\ config # <<>>) =>
        LET js == JoinsOf(config[1])
        IN  /\ Len(js) = Len(JoinsReceived)
            /\ \A n \in 1..Len(js) :
                  /\ js[n].table = Pieces(JoinsReceived[n], ":")[1]
                  /\ js[n].type =
                        CASE KindReceived(JoinsReceived[n]) = "inner" -> "INNER"
                          [] KindReceived(JoinsReceived[n]) = "right" -> "RIGHT"
                          [] OTHER -> "LEFT"


\* the requests of the Playground that are in flight
InFlight == {n \in DOMAIN requests : requests[n].pending}

\* what the Playground may show for the request it issued last: the data of
\* that request, or an error message of fetchData
ResultsOfLatest ==
    {<<DataOf(requests[Len(requests)].url)>>,
     <<ErrorResult("Failed to fetch data")>>,
     <<ErrorResult("Query must start with \"db-\"")>>}

\* C28: in the Playground, once every request in flight has completed, the
\* displayed result is the response to the request issued last, so that the
\* response of an earlier request arriving late never replaces it; and the
\* loading indicator is off only when no request is in flight.
C28_LatestResponse ==
    /\ (requests # <<>> /\ InFlight = {}) => result \in ResultsOfLatest
    /\ ~loading => InFlight = {}

====
